---- MODULE Spec2Model ----
(***************************************************************************)
(* State-machine model of the inference engine of the fault-localization   *)
(* experiment (src/code/Experiment_code/engine.py): the oracle client's    *)
(* response parsing, the zero-shot iterative strategy, the                 *)
(* self-consistency strategy and its vote aggregation; and of the metrics  *)
(* evaluator (src/code/Experiment_code/evaluation.py): normalize_method,   *)
(* evaluate_bug and generate_evaluation_report.                            *)
(*                                                                         *)
(* Strings whose characters matter (method identifiers, justifications)    *)
(* are sequences of one-character strings, so that trimming and length     *)
(* are computed, not assumed.  Latencies, console output and the files     *)
(* the strategies write are left out: no control decision reads them.      *)
(***************************************************************************)
EXTENDS Integers, Sequences, FiniteSets, TLC

VARIABLES
    strategy,         \* which entry point is running
    pc,               \* "loop" while the strategy's for-loop runs, "done" after return
    max_iterations,   \* max_iterations of run_zero_shot_iterative
    top_k,            \* top_k argument of run_self_consistency / _aggregate_results
    num_runs,         \* num_runs of run_self_consistency
    iteration,        \* next value of the zero-shot loop index
    run_idx,          \* next value of the self-consistency loop index
    prev_candidates,  \* JSON text embedded in the next zero-shot prompt
    prev_methods,     \* Optional[List[str]]: convergence baseline
    all_iterations,   \* history of run_zero_shot_iterative
    all_runs,         \* history of run_self_consistency; the runs given to _aggregate_results
    aggregated,       \* what _aggregate_results returned
    errors,           \* error records
    prompts,          \* prompts handed to client.generate, in call order
    response,         \* the LLMResponse of the latest client.generate call
    result,           \* the returned InferenceResult, once returned
    candidates,       \* what extract_top_k_methods returned for `response`
    identifier,       \* the argument of normalize_method
    normalized,       \* what normalize_method returned
    predicted,        \* evaluate_bug: the predicted identifiers, in rank order
    actual,           \* evaluate_bug: the ground-truth identifiers
    eval_k,           \* the k of evaluate_bug / generate_evaluation_report
    metrics,          \* what evaluate_bug returned
    benchmark_type,   \* generate_evaluation_report: "python" or "java"
    results,          \* generate_evaluation_report: the results the loop has gone through
    ground_truth,     \* generate_evaluation_report: project -> bug_id -> identifiers
    project_results,  \* generate_evaluation_report: project -> metrics of its scored bugs
    report,           \* generate_evaluation_report: the TOTALS of the report
    artifact,         \* _save_result: the final_*.json file on disk
    refs,             \* run_experiment: the selected defects
    ref_idx,          \* run_experiment: the loop index i
    success,          \* run_experiment: success
    failures,         \* run_experiment: errors (the counter)
    handled           \* run_experiment: the defects the loop has taken up, in order

evalvars == <<candidates, identifier, normalized, predicted, actual, eval_k,
              metrics, benchmark_type, results, ground_truth, project_results,
              report>>

runvars == <<artifact, refs, ref_idx, success, failures, handled>>

vars == <<strategy, pc, max_iterations, num_runs, top_k, iteration, run_idx,
          prev_candidates, prev_methods, all_iterations, all_runs, aggregated,
          errors, prompts, response, result, evalvars, runvars>>

\* No artifact written, no experiment run
NoFile == [exists |-> FALSE, content |-> <<>>]

RunIdle ==
    /\ artifact = NoFile
    /\ refs = <<>>
    /\ ref_idx = 1
    /\ success = 0
    /\ failures = 0
    /\ handled = <<>>

----------------------------------------------------------------------------
(* Bounds of the model *)

MaxIterations == 3
MaxTopKLen == 2
MaxVotes == 3
MaxIdLen == 5
MaxPredicted == 4
MaxResults == 3
MaxDefects == 3

----------------------------------------------------------------------------
(* Python values *)

\* A JSON scalar found under a key of an entry of the top_k array;
\* "absent" is a missing key.
JStr(s) == [t |-> "str", s |-> s, n |-> 0]
JNum(n) == [t |-> "num", s |-> <<>>, n |-> n]
JNull == [t |-> "null", s |-> <<>>, n |-> 0]
JAbsent == [t |-> "absent", s |-> <<>>, n |-> 0]

\* Python truthiness of such a value.
Truthy(v) ==
    CASE v.t = "str" -> v.s # <<>>
      [] v.t = "num" -> v.n # 0
      [] OTHER -> FALSE

Digit(d) == CASE d = 0 -> "0" [] d = 1 -> "1" [] d = 2 -> "2" [] d = 3 -> "3"
              [] d = 4 -> "4" [] d = 5 -> "5" [] d = 6 -> "6" [] d = 7 -> "7"
              [] d = 8 -> "8" [] d = 9 -> "9"

\* str(v) for the values above (single-digit numbers suffice here).
PyStr(v) ==
    CASE v.t = "str" -> v.s
      [] v.t = "num" -> <<Digit(v.n)>>
      [] OTHER -> <<"N", "o", "n", "e">>

IsSpace(c) == c \in {" ", "\t", "\n"}

RECURSIVE LStrip(_)
LStrip(s) == IF s # <<>> /\ IsSpace(Head(s)) THEN LStrip(Tail(s)) ELSE s

RECURSIVE RStrip(_)
RStrip(s) ==
    IF s # <<>> /\ IsSpace(s[Len(s)]) THEN RStrip(SubSeq(s, 1, Len(s) - 1)) ELSE s

\* str.strip()
Strip(s) == RStrip(LStrip(s))

\* dict.get(key, default) on an entry: a missing key yields the default.
Get(v, default) == IF v.t = "absent" THEN default ELSE v

SeqsUpTo(S, n) == UNION {[1..k -> S] : k \in 0..n}

----------------------------------------------------------------------------
(* OllamaClient *)

\* parsed_json: None, or the decoded JSON object.  Of the object only the
\* "top_k" key is read: whether it is there, whether it holds an array, and
\* the array's entries.
NoneJson == [is_none |-> TRUE, has_top_k |-> FALSE, is_list |-> FALSE, top_k |-> <<>>]
JsonObject(has, islist, entries) ==
    [is_none |-> FALSE, has_top_k |-> has, is_list |-> islist, top_k |-> entries]

\* The oracle's raw text, by what _extract_json can tell apart:
\*   "blank"   nothing but whitespace
\*   "nobrace" no "{" before a "}"
\*   "badjson" braces around text that json.loads rejects
\*   "json"    braces around a JSON object, decoded in `doc`
RawText(shape, doc) == [shape |-> shape, doc |-> doc]
EmptyText == RawText("blank", NoneJson)

\* Optional[str] error: None is the empty message (both are falsy).
NoError == ""

_extract_json(text) ==
    CASE text.shape = "blank" -> <<NoneJson, "Empty response">>
      [] text.shape = "nobrace" -> <<NoneJson, "No JSON found">>
      [] text.shape = "badjson" -> <<NoneJson, "JSON parse error">>
      [] OTHER -> <<text.doc, NoError>>

LLMResponse(raw_text, parsed_json, error) ==
    [raw_text |-> raw_text, parsed_json |-> parsed_json, error |-> error]

\* One call of the oracle: the HTTP exchange either raises (timeout,
\* transport error, non-success status) or delivers a text.
generate(outcome) ==
    IF outcome.raised
    THEN LLMResponse(EmptyText, NoneJson, outcome.message)
    ELSE LET pe == _extract_json(outcome.text)
         IN  LLMResponse(outcome.text, pe[1], pe[2])

----------------------------------------------------------------------------
(* Helper functions *)

\* An entry of the top_k array: a JSON object with some of the keys
\* method / method_name / justification, or something that is no object.
Entry(isdict, method, method_name, justification) ==
    [is_dict |-> isdict, method |-> method, method_name |-> method_name,
     justification |-> justification]

Candidate(method, justification) ==
    [method |-> method, justification |-> justification]

RECURSIVE extract_entries(_)
extract_entries(entries) ==
    IF entries = <<>> THEN <<>>
    ELSE LET item == Head(entries)
             first == Get(item.method, JStr(<<>>))
             method == IF Truthy(first) THEN first
                       ELSE Get(item.method_name, JStr(<<>>))
             rest == extract_entries(Tail(entries))
         IN  IF item.is_dict /\ Truthy(method)
             THEN <<Candidate(Strip(PyStr(method)),
                              Strip(PyStr(Get(item.justification, JStr(<<>>)))))>>
                  \o rest
             ELSE rest

extract_top_k_methods(resp) ==
    IF resp.parsed_json.is_none THEN <<>>
    ELSE IF ~resp.parsed_json.has_top_k THEN <<>>
    ELSE IF ~resp.parsed_json.is_list THEN <<>>
    ELSE extract_entries(resp.parsed_json.top_k)

\* json.dumps of the list of {"method": ...} objects: the justifications
\* are not part of the text.
methods_to_json(methods) == [i \in 1..Len(methods) |-> [method |-> methods[i].method]]

method_names_of(methods) == [i \in 1..Len(methods) |-> methods[i].method]

----------------------------------------------------------------------------
(* PromptBuilder *)

base_prompt == "base_prompt"

wrap_zero_shot(base, previous_candidates) ==
    [prefix |-> "ZERO_SHOT_PREFIX", previous |-> previous_candidates,
     base |-> base, suffix |-> "ZERO_SHOT_SUFFIX"]

\* Variant: the rounds so far are embedded, as the zero-shot wrapper does.
wrap_self_consistency_fed(base) ==
    [prefix |-> "SELF_CONSISTENCY_PREFIX", previous |-> all_runs,
     base |-> base, suffix |-> "SELF_CONSISTENCY_SUFFIX"]

wrap_self_consistency(base) ==
    [prefix |-> "SELF_CONSISTENCY_PREFIX", previous |-> <<>>,
     base |-> base, suffix |-> "SELF_CONSISTENCY_SUFFIX"]

----------------------------------------------------------------------------
(* _aggregate_results *)

\* stats is a dict, which iterates in insertion order: a sequence of
\* entries, one per method, in the order the methods were first seen.
StatsIndex(stats, method) ==
    IF \E i \in 1..Len(stats) : stats[i].method = method
    THEN CHOOSE i \in 1..Len(stats) : stats[i].method = method
    ELSE 0

\* Variant: an item without an identifier is tallied like any other.
TallyBlankToo(stats, item, rank) ==
    LET i == StatsIndex(stats, item.method)
        old == IF i = 0
               THEN [method |-> item.method, count |-> 0, ranks |-> <<>>,
                     justifications |-> <<>>]
               ELSE stats[i]
        new == [method |-> old.method,
                count |-> old.count + 1,
                ranks |-> Append(old.ranks, rank),
                justifications |->
                    IF item.justification # <<>>
                    THEN Append(old.justifications, item.justification)
                    ELSE old.justifications]
    IN  IF i = 0 THEN Append(stats, new) ELSE [stats EXCEPT ![i] = new]

\* The body of the inner loop for one item at one rank.
Tally(stats, item, rank) ==
    IF item.method = <<>> THEN stats
    ELSE LET i == StatsIndex(stats, item.method)
             old == IF i = 0
                    THEN [method |-> item.method, count |-> 0, ranks |-> <<>>,
                          justifications |-> <<>>]
                    ELSE stats[i]
             new == [method |-> old.method,
                     count |-> old.count + 1,
                     ranks |-> Append(old.ranks, rank),
                     justifications |->
                         IF item.justification # <<>>
                         THEN Append(old.justifications, item.justification)
                         ELSE old.justifications]
         IN  IF i = 0 THEN Append(stats, new) ELSE [stats EXCEPT ![i] = new]

RECURSIVE TallyRun(_, _, _)
TallyRun(stats, methods, rank) ==
    IF rank > Len(methods) THEN stats
    ELSE TallyRun(Tally(stats, methods[rank], rank), methods, rank + 1)

RECURSIVE TallyRuns(_, _)
TallyRuns(stats, runs) ==
    IF runs = <<>> THEN stats
    ELSE TallyRuns(TallyRun(stats, Head(runs).methods, 1), Tail(runs))

RECURSIVE SumSeq(_)
SumSeq(ranks) == IF ranks = <<>> THEN 0 ELSE Head(ranks) + SumSeq(Tail(ranks))

\* sum(ranks) / len(ranks), kept as the fraction it is the quotient of.
AvgRank(ranks) == [num |-> SumSeq(ranks), den |-> Len(ranks)]

\* avg_rank of a below avg_rank of b.  The float quotients of ranks this
\* small are ordered as the fractions are.
AvgLess(a, b) == a.num * b.den < b.num * a.den

\* Variant: the last of the shortest.
RECURSIVE MinByLenLast(_)
MinByLenLast(js) ==
    IF Len(js) = 1 THEN js[1]
    ELSE LET m == MinByLenLast(Tail(js))
         IN  IF Len(js[1]) < Len(m) THEN js[1] ELSE m

\* min(justifications, key=len): the first of the shortest.
RECURSIVE MinByLen(_)
MinByLen(js) ==
    IF Len(js) = 1 THEN js[1]
    ELSE LET m == MinByLen(Tail(js))
         IN  IF Len(js[1]) <= Len(m) THEN js[1] ELSE m

VoteItem(st) ==
    [method |-> st.method, count |-> st.count, avg_rank |-> AvgRank(st.ranks),
     justification |-> IF st.justifications # <<>> THEN MinByLen(st.justifications)
                       ELSE <<>>]

\* Variant: the key is (count, avg_rank), the count not negated.
KeyLessAscending(x, y) ==
    \/ x.count < y.count
    \/ x.count = y.count /\ AvgLess(x.avg_rank, y.avg_rank)

\* The sort key (-count, avg_rank): x sorts strictly before y.
KeyLess(x, y) ==
    \/ x.count > y.count
    \/ x.count = y.count /\ AvgLess(x.avg_rank, y.avg_rank)

\* list.sort is stable: an element goes after every element that is not
\* strictly greater than it.
RECURSIVE InsertSorted(_, _)
InsertSorted(sorted, x) ==
    IF sorted = <<>> THEN <<x>>
    ELSE IF KeyLess(x, Head(sorted)) THEN <<x>> \o sorted
    ELSE <<Head(sorted)>> \o InsertSorted(Tail(sorted), x)

RECURSIVE StableSort(_)
StableSort(items) ==
    IF items = <<>> THEN <<>>
    ELSE InsertSorted(StableSort(SubSeq(items, 1, Len(items) - 1)), items[Len(items)])

VoteItems(runs) ==
    LET stats == TallyRuns(<<>>, runs)
    IN  [i \in 1..Len(stats) |-> VoteItem(stats[i])]

\* Variant: no cut.
PrefixWhole(s, n) == s

\* s[:n], for n >= 0
Prefix(s, n) == SubSeq(s, 1, IF n < Len(s) THEN n ELSE Len(s))

_aggregate_results(runs, k) ==
    LET items == Prefix(StableSort(VoteItems(runs)), k)
    IN  [i \in 1..Len(items) |-> Candidate(items[i].method, items[i].justification)]

----------------------------------------------------------------------------
(* What the oracle may answer in the strategy runs *)

Raised(message) == [raised |-> TRUE, message |-> message, text |-> EmptyText]
Answered(text) == [raised |-> FALSE, message |-> NoError, text |-> text]

WellFormed(method, justification) ==
    Entry(TRUE, JStr(method), JAbsent, JStr(justification))

EngineIdents == {<<"A">>, <<"B">>}

EngineEntries == {WellFormed(m, <<>>) : m \in EngineIdents}

EngineOutcomes ==
    {Raised("Read timed out"),
     Answered(RawText("blank", NoneJson)),
     Answered(RawText("nobrace", NoneJson)),
     Answered(RawText("badjson", NoneJson)),
     Answered(RawText("json", JsonObject(FALSE, FALSE, <<>>))),
     Answered(RawText("json", JsonObject(TRUE, FALSE, <<>>)))}
    \cup {Answered(RawText("json", JsonObject(TRUE, TRUE, l))) :
            l \in SeqsUpTo(EngineEntries, MaxTopKLen)}

----------------------------------------------------------------------------
(* evaluation.py: normalize_method *)

\* "sep in method"
Contains(s, sep) ==
    \E i \in 1..(Len(s) - Len(sep) + 1) : SubSeq(s, i, i + Len(sep) - 1) = sep

\* method.rsplit(sep, 1)[-1] when sep occurs: what follows its last occurrence.
AfterLast(s, sep) ==
    LET starts == {i \in 1..(Len(s) - Len(sep) + 1) :
                      SubSeq(s, i, i + Len(sep) - 1) = sep}
        last == CHOOSE i \in starts : \A j \in starts : j <= i
    IN  SubSeq(s, last + Len(sep), Len(s))

\* method.split("(")[0] when "(" occurs: what precedes its first occurrence.
BeforeFirst(s, c) ==
    LET at == {i \in 1..Len(s) : s[i] = c}
        first == CHOOSE i \in at : \A j \in at : i <= j
    IN  SubSeq(s, 1, first - 1)

UpperCase == <<"A", "B", "C", "D", "E", "F", "G", "H", "I", "J", "K", "L", "M",
               "N", "O", "P", "Q", "R", "S", "T", "U", "V", "W", "X", "Y", "Z">>
LowerCase == <<"a", "b", "c", "d", "e", "f", "g", "h", "i", "j", "k", "l", "m",
               "n", "o", "p", "q", "r", "s", "t", "u", "v", "w", "x", "y", "z">>

\* str.lower(), on the ASCII letters
Lower(s) ==
    [i \in 1..Len(s) |->
        IF \E u \in 1..Len(UpperCase) : UpperCase[u] = s[i]
        THEN LowerCase[CHOOSE u \in 1..Len(UpperCase) : UpperCase[u] = s[i]]
        ELSE s[i]]

\* ["#", "::", "."]
Separators == << <<"#">>, <<":", ":">>, <<".">> >>

\* Variant: the loop over the separators ends at the first one found.
RECURSIVE SplitOnFirstSeparator(_, _)
SplitOnFirstSeparator(s, seps) ==
    IF seps = <<>> THEN s
    ELSE IF Contains(s, Head(seps)) THEN AfterLast(s, Head(seps))
    ELSE SplitOnFirstSeparator(s, Tail(seps))

\* The loop "for sep in [...]: if sep in method: method = ...": every
\* separator is tried in turn, each on what the one before left.
RECURSIVE SplitOnSeparators(_, _)
SplitOnSeparators(s, seps) ==
    IF seps = <<>> THEN s
    ELSE SplitOnSeparators(IF Contains(s, Head(seps))
                           THEN AfterLast(s, Head(seps)) ELSE s,
                           Tail(seps))

\* if "(" in method: method = method.split("(")[0]
SignatureCut(s) == IF Contains(s, <<"(">>) THEN BeforeFirst(s, "(") ELSE s

normalize_method(m) ==
    LET stripped == Strip(m)
        unqualified == SplitOnSeparators(stripped, Separators)
    IN  Lower(SignatureCut(unqualified))

----------------------------------------------------------------------------
(* evaluation.py: evaluate_bug *)

RECURSIVE GCD(_, _)
GCD(a, b) == IF b = 0 THEN a ELSE GCD(b, a % b)

\* A float, kept exact: the fraction num/den in lowest terms, den > 0.
Frac(n, d) == LET g == GCD(n, d) IN [num |-> n \div g, den |-> d \div g]
Zero == Frac(0, 1)
FracAdd(a, b) == Frac(a.num * b.den + b.num * a.den, a.den * b.den)
FracMul(a, b) == Frac(a.num * b.num, a.den * b.den)
FracDiv(a, b) == Frac(a.num * b.den, a.den * b.num)

Range(s) == {s[i] : i \in 1..Len(s)}

Metrics(top_1, top_3, top_5, precision, recall, f1, accuracy) ==
    [top_1 |-> top_1, top_3 |-> top_3, top_5 |-> top_5, precision |-> precision,
     recall |-> recall, f1 |-> f1, accuracy |-> accuracy]

\* Variant: the hit flags look at the first n predictions before the cut at k.
TopHitUncut(preds, truth, k, n) ==
    Range([i \in 1..Len(Prefix(preds, n)) |-> normalize_method(preds[i])])
        \cap {normalize_method(m) : m \in truth} # {}

\* bool(set(pred_norm[:n]) & actual_norm)
TopHit(preds, truth, k, n) ==
    LET pred_norm == [i \in 1..Len(Prefix(preds, k)) |-> normalize_method(preds[i])]
        actual_norm == {normalize_method(m) : m \in truth}
    IN  Range(Prefix(pred_norm, n)) \cap actual_norm # {}

\* Variant: tn = min(k, 0)
TrueNegativesNone(k, tp, fp) == IF k < 0 THEN k ELSE 0

\* tn = max(0, k - tp - fp)
TrueNegatives(k, tp, fp) == IF k - tp - fp > 0 THEN k - tp - fp ELSE 0

evaluate_bug(preds, truth, k) ==
    LET pred_norm == [i \in 1..Len(Prefix(preds, k)) |-> normalize_method(preds[i])]
        actual_norm == {normalize_method(m) : m \in truth}
        pred_set == Range(pred_norm)
        tp == Cardinality(pred_set \cap actual_norm)
        fp == Cardinality(pred_set \ actual_norm)
        fn == Cardinality(actual_norm \ pred_set)
        tn == TrueNegatives(k, tp, fp)
        precision == IF tp + fp > 0 THEN Frac(tp, tp + fp) ELSE Zero
        recall == IF tp + fn > 0 THEN Frac(tp, tp + fn) ELSE Zero
        f1 == IF FracAdd(precision, recall).num > 0
              THEN FracDiv(FracMul(FracMul(Frac(2, 1), precision), recall),
                           FracAdd(precision, recall))
              ELSE Zero
        accuracy == IF k > 0 THEN Frac(tp + tn, k) ELSE Zero
    IN  Metrics(TopHit(preds, truth, k, 1), TopHit(preds, truth, k, 3),
                TopHit(preds, truth, k, 5), precision, recall, f1, accuracy)

\* The evaluator before any call
NoMetrics == Metrics(FALSE, FALSE, FALSE, Zero, Zero, Zero, Zero)

EvalIdle ==
    /\ candidates = <<>>
    /\ identifier = <<>>
    /\ normalized = <<>>
    /\ predicted = <<>>
    /\ actual = {}
    /\ eval_k = 0
    /\ metrics = NoMetrics
    /\ benchmark_type = "python"
    /\ results = <<>>
    /\ ground_truth = <<>>
    /\ project_results = <<>>
    /\ report = <<>>

----------------------------------------------------------------------------
(* Inference strategies *)

\* Optional[List[str]]
NoMethods == [some |-> FALSE, names |-> <<>>]
SomeMethods(names) == [some |-> TRUE, names |-> names]

InferenceResult(final_ranking, iterations_used, converged, history, errs) ==
    [final_ranking |-> final_ranking, iterations_used |-> iterations_used,
     converged |-> converged, all_iterations |-> history, errors |-> errs]

NoResult == InferenceResult(<<>>, 0, FALSE, <<>>, <<>>)

\* f"Iteration {iteration}: {response.error}" / f"Run {run_idx}: {response.error}"
ErrorRecord(label, index, error) == [label |-> label, index |-> index, error |-> error]

\* Variant: the test reads "is not None".
CallFailedIsNotNone(resp) == resp.error # NoError /\ ~resp.parsed_json.is_none

\* "response.error and response.parsed_json is None"
CallFailed(resp) == resp.error # NoError /\ resp.parsed_json.is_none

\* Variant: the baseline is tested for truth, so an empty one never matches.
ConvergedTruthy(prev, method_names) ==
    prev.some /\ prev.names # <<>> /\ method_names = prev.names

\* Variant: the lists are compared as sets.
ConvergedAsSets(prev, method_names) ==
    /\ prev.some
    /\ {method_names[i] : i \in 1..Len(method_names)}
         = {prev.names[i] : i \in 1..Len(prev.names)}

\* Variant: the lists are compared after normalize_method.
ConvergedNormalized(prev, method_names) ==
    /\ prev.some
    /\ [i \in 1..Len(method_names) |-> normalize_method(method_names[i])]
         = [i \in 1..Len(prev.names) |-> normalize_method(prev.names[i])]

\* Variant: any successful iteration after the first one converges.
ConvergedOnSecondSuccess(prev, method_names) == prev.some

\* "prev_methods is not None and method_names == prev_methods"
Converged(prev, method_names) == prev.some /\ method_names = prev.names

\* Variant: the first record is taken instead of the last.
FinalMethodsFirst(history) ==
    IF history # <<>> THEN history[1].methods ELSE <<>>

\* all_iterations[-1]["methods"] if all_iterations else []
FinalMethods(history) ==
    IF history # <<>> THEN history[Len(history)].methods ELSE <<>>

Init ==
    /\ strategy \in {"zero_shot", "self_consistency"}
    /\ pc = "loop"
    /\ IF strategy = "zero_shot"
       THEN max_iterations \in 0..MaxIterations /\ num_runs = 0 /\ top_k = 0
       ELSE max_iterations = 0 /\ num_runs \in 0..MaxIterations
                               /\ top_k \in {1, MaxTopKLen}
    /\ iteration = 1
    /\ run_idx = 1
    /\ prev_candidates = <<>>
    /\ prev_methods = NoMethods
    /\ all_iterations = <<>>
    /\ all_runs = <<>>
    /\ aggregated = <<>>
    /\ errors = <<>>
    /\ prompts = <<>>
    /\ response = LLMResponse(EmptyText, NoneJson, NoError)
    /\ result = NoResult
    /\ EvalIdle
    /\ RunIdle

\* Variant: the loop index runs to max_iterations + 1.
InRangeOneMore(i, n) == i <= n + 1

\* i is among range(1, n + 1), for an i >= 1
InRange(i, n) == i <= n

\* One pass through the body of the for-loop of run_zero_shot_iterative.
ZeroShotIteration(outcome) ==
    /\ strategy = "zero_shot"
    /\ pc = "loop"
    /\ InRange(iteration, max_iterations)
    /\ response' = generate(outcome)
    /\ LET full_prompt == wrap_zero_shot(base_prompt, prev_candidates)
           methods == extract_top_k_methods(response')
           method_names == method_names_of(methods)
           history == Append(all_iterations,
                             [iteration |-> iteration, methods |-> methods])
       IN  /\ prompts' = Append(prompts, full_prompt)
           /\ IF CallFailed(response')
              THEN /\ errors' = Append(errors,
                           ErrorRecord("Iteration", iteration, response'.error))
                   /\ iteration' = iteration + 1
                   /\ UNCHANGED <<pc, prev_candidates, prev_methods,
                                  all_iterations, result>>
              ELSE /\ all_iterations' = history
                   /\ IF Converged(prev_methods, method_names)
                      THEN /\ result' = InferenceResult(methods, iteration, TRUE,
                                                        history, errors)
                           /\ pc' = "done"
                           /\ UNCHANGED <<iteration, prev_candidates, prev_methods>>
                      ELSE /\ prev_methods' = SomeMethods(method_names)
                           /\ prev_candidates' = methods_to_json(methods)
                           /\ iteration' = iteration + 1
                           /\ UNCHANGED <<pc, result>>
                   /\ UNCHANGED errors
    /\ UNCHANGED <<strategy, max_iterations, num_runs, top_k, run_idx, all_runs,
                   aggregated>>
    /\ UNCHANGED evalvars
    /\ UNCHANGED runvars

\* The for-loop of run_zero_shot_iterative ran out: the code after it.
ZeroShotExhausted ==
    /\ strategy = "zero_shot"
    /\ pc = "loop"
    /\ ~InRange(iteration, max_iterations)
    /\ result' = InferenceResult(FinalMethods(all_iterations), max_iterations,
                                 FALSE, all_iterations, errors)
    /\ pc' = "done"
    /\ UNCHANGED <<strategy, max_iterations, num_runs, top_k, iteration, run_idx,
                   prev_candidates, prev_methods, all_iterations, all_runs,
                   aggregated, errors, prompts, response>>
    /\ UNCHANGED evalvars
    /\ UNCHANGED runvars

\* One pass through the body of the for-loop of run_self_consistency.
SelfConsistencyRun(outcome) ==
    /\ strategy = "self_consistency"
    /\ pc = "loop"
    /\ run_idx <= num_runs
    /\ response' = generate(outcome)
    /\ LET full_prompt == wrap_self_consistency(base_prompt)
           methods == extract_top_k_methods(response')
       IN  /\ prompts' = Append(prompts, full_prompt)
           /\ IF CallFailed(response')
              THEN /\ errors' = Append(errors,
                           ErrorRecord("Run", run_idx, response'.error))
                   /\ UNCHANGED all_runs
              ELSE /\ all_runs' = Append(all_runs,
                           [run |-> run_idx, methods |-> methods])
                   /\ UNCHANGED errors
    /\ run_idx' = run_idx + 1
    /\ UNCHANGED <<strategy, pc, max_iterations, num_runs, top_k, iteration,
                   prev_candidates, prev_methods, all_iterations, aggregated,
                   result>>
    /\ UNCHANGED evalvars
    /\ UNCHANGED runvars

\* Variant: converged only when the vote produced a ranking.
SelfConsistencyResultIfRanked(final, n, runs, errs) ==
    InferenceResult(final, n, final # <<>>, runs, errs)

\* The InferenceResult run_self_consistency returns.
SelfConsistencyResult(final, n, runs, errs) ==
    InferenceResult(final, n, TRUE, runs, errs)

\* The for-loop of run_self_consistency ran out: aggregate and return.
SelfConsistencyAggregate ==
    /\ strategy = "self_consistency"
    /\ pc = "loop"
    /\ run_idx > num_runs
    /\ aggregated' = _aggregate_results(all_runs, top_k)
    /\ result' = SelfConsistencyResult(aggregated', num_runs, all_runs, errors)
    /\ pc' = "done"
    /\ UNCHANGED <<strategy, max_iterations, num_runs, top_k, iteration, run_idx,
                   prev_candidates, prev_methods, all_iterations, all_runs,
                   errors, prompts, response>>
    /\ UNCHANGED evalvars
    /\ UNCHANGED runvars

Next ==
    \/ \E outcome \in EngineOutcomes : ZeroShotIteration(outcome)
    \/ ZeroShotExhausted
    \/ \E outcome \in EngineOutcomes : SelfConsistencyRun(outcome)
    \/ SelfConsistencyAggregate

Spec == Init /\ [][Next]_vars

----------------------------------------------------------------------------
(* Properties of run_zero_shot_iterative *)

Idents(methods) == [i \in 1..Len(methods) |-> methods[i].method]

Occurrences(s, x) == Cardinality({i \in 1..Len(s) : s[i] = x})

\* The same identifiers, each as often, in another order.
Reordered(s, t) ==
    /\ s # t
    /\ Len(s) = Len(t)
    /\ \A i \in 1..Len(s) : Occurrences(s, s[i]) = Occurrences(t, s[i])

ZeroShotReturned == strategy = "zero_shot" /\ pc = "done"

\* The latest call produced no JSON object: it raised, or its text was
\* blank, held no braces, or was rejected by the JSON decoder.
NothingParsed == response.parsed_json.is_none

\* C1: whenever a successful iteration i yields the same ordered identifier
\* sequence as the preceding successful iteration, the run has stopped at i:
\* no oracle call follows, and it returned converged = True,
\* iterations_used = i and iteration i's list as the final ranking.
C1_ConvergesOnRepeat ==
    strategy = "zero_shot" =>
        \A j \in 2..Len(all_iterations) :
            Idents(all_iterations[j].methods) = Idents(all_iterations[j - 1].methods)
            => /\ j = Len(all_iterations)
               /\ pc = "done"
               /\ result.converged = TRUE
               /\ result.iterations_used = all_iterations[j].iteration
               /\ result.final_ranking = all_iterations[j].methods
               /\ Len(prompts) = all_iterations[j].iteration

\* Iteration 1 = [A, B], iteration 2 = [A, B]: converged at 2 with [A, B].
C1_Witness ==
    /\ ZeroShotReturned
    /\ max_iterations = MaxIterations
    /\ result.converged
    /\ result.iterations_used = 2
    /\ Idents(result.final_ranking) = << <<"A">>, <<"B">> >>
    /\ Len(prompts) = 2

\* C2: a successful iteration whose identifier list is a reordering of the
\* preceding successful iteration's list does not converge: the loop goes
\* on to the next iteration, or, the budget being spent, the run returns
\* converged = False; a run that returns converged = True ends in two
\* successful iterations with equal ordered identifier sequences.
C2_ReorderingIsNotConvergence ==
    strategy = "zero_shot" =>
        LET n == Len(all_iterations)
        IN  /\ (n >= 2 /\ Reordered(Idents(all_iterations[n - 1].methods),
                                    Idents(all_iterations[n].methods)))
               => /\ result.converged = FALSE
                  /\ iteration > all_iterations[n].iteration
                  /\ pc = "done" => Len(prompts) = max_iterations
            /\ (pc = "done" /\ result.converged)
               => /\ n >= 2
                  /\ Idents(all_iterations[n - 1].methods)
                       = Idents(all_iterations[n].methods)

\* [A, B] then [B, A] in the last two iterations: exhausted, not converged.
C2_Witness ==
    /\ ZeroShotReturned
    /\ Len(all_iterations) = 2
    /\ Idents(all_iterations[1].methods) = << <<"A">>, <<"B">> >>
    /\ Idents(all_iterations[2].methods) = << <<"B">>, <<"A">> >>
    /\ all_iterations[2].iteration = max_iterations
    /\ ~result.converged

\* C3: an iteration whose oracle call fails (error set, nothing parsed)
\* appends exactly one error record, appends nothing to the history, leaves
\* the convergence baseline and the previous-candidates text unchanged,
\* uses up one iteration, and leaves the loop running.
C3_FailedIterationFrame ==
    [][(strategy = "zero_shot" /\ prompts' # prompts
          /\ response'.error # "" /\ response'.parsed_json.is_none)
       => /\ errors' = Append(errors, [label |-> "Iteration", index |-> iteration,
                                       error |-> response'.error])
          /\ all_iterations' = all_iterations
          /\ prev_methods' = prev_methods
          /\ prev_candidates' = prev_candidates
          /\ iteration' = iteration + 1
          /\ Len(prompts') = Len(prompts) + 1
          /\ pc' = "loop"
          /\ result' = result]_vars

\* A failed iteration between two successful ones: the prompt after the
\* failure embeds the same candidates as the failed call's prompt did.
C3_Witness ==
    /\ strategy = "zero_shot"
    /\ Len(prompts) = 3
    /\ Len(errors) = 1
    /\ errors[1].index = 2
    /\ Len(all_iterations) = 2
    /\ prompts[2].previous # <<>>
    /\ prompts[3].previous = prompts[2].previous

NoRepeat ==
    \A j \in 2..Len(all_iterations) :
        Idents(all_iterations[j].methods) # Idents(all_iterations[j - 1].methods)

\* C4: a run that performs max_iterations iterations without a convergence
\* match returns converged = False and, as final ranking, the candidate list
\* of the last successful iteration, or the empty list if every iteration
\* failed.
C4_ExhaustedResult ==
    (ZeroShotReturned /\ Len(prompts) = max_iterations /\ NoRepeat)
    => /\ result.converged = FALSE
       /\ result.iterations_used = max_iterations
       /\ IF all_iterations = <<>>
          THEN result.final_ranking = <<>> /\ Len(errors) = max_iterations
          ELSE /\ result.final_ranking
                    = all_iterations[Len(all_iterations)].methods
               /\ \A i \in 1..Len(all_iterations) :
                      all_iterations[i].iteration
                          <= all_iterations[Len(all_iterations)].iteration

\* Exhausted after [A], [B], then a failed call: the final ranking is [B].
C4_Witness ==
    /\ ZeroShotReturned
    /\ ~result.converged
    /\ max_iterations = 3
    /\ Len(all_iterations) = 2
    /\ errors # <<>> /\ errors[1].index = 3
    /\ Idents(all_iterations[1].methods) = << <<"A">> >>
    /\ Idents(result.final_ranking) = << <<"B">> >>

\* Every iteration failed: the final ranking is empty.
C4_WitnessAllFailed ==
    /\ ZeroShotReturned
    /\ max_iterations = 2
    /\ Len(errors) = 2
    /\ result.final_ranking = <<>>

\* The latest response is unparseable: no JSON found, invalid JSON, or a
\* JSON object without a usable top_k array.
Unparseable ==
    \/ response.parsed_json.is_none
    \/ ~response.parsed_json.has_top_k
    \/ ~response.parsed_json.is_list

\* C5: an unparseable response is handled like a failed call in both
\* strategies: an error is recorded for that iteration or round, no record
\* is added to the history, and the convergence baseline is not advanced.
C5_UnparseableIsFailure ==
    (prompts # <<>> /\ Unparseable)
    => /\ errors # <<>>
       /\ errors[Len(errors)].index = Len(prompts)
       /\ \A i \in 1..Len(all_iterations) :
              all_iterations[i].iteration # Len(prompts)
       /\ \A i \in 1..Len(all_runs) : all_runs[i].run # Len(prompts)
       /\ (strategy = "zero_shot" /\ all_iterations = <<>>)
              => ~prev_methods.some

----------------------------------------------------------------------------
(* _aggregate_results on its own: any list of runs, any top_k *)

AggJustifications == {<<>>, <<"x">>, <<"y">>, <<"z", "z">>}

AggCandidates ==
    {Candidate(<<"A">>, j) : j \in AggJustifications} \cup {Candidate(<<"B">>, <<>>)}

InitAgg ==
    /\ strategy = "aggregate"
    /\ pc = "loop"
    /\ max_iterations = 0
    /\ num_runs = 0
    /\ top_k = 0
    /\ iteration = 1
    /\ run_idx = 1
    /\ prev_candidates = <<>>
    /\ prev_methods = NoMethods
    /\ all_iterations = <<>>
    /\ all_runs = <<>>
    /\ aggregated = <<>>
    /\ errors = <<>>
    /\ prompts = <<>>
    /\ response = LLMResponse(EmptyText, NoneJson, NoError)
    /\ result = NoResult
    /\ EvalIdle
    /\ RunIdle

RECURSIVE Votes(_)
Votes(runs) == IF runs = <<>> THEN 0 ELSE Len(Head(runs).methods) + Votes(Tail(runs))

\* The caller collects one more run: at most MaxVotes runs, holding at most
\* MaxVotes candidates between them.
AggAddRun(methods) ==
    /\ strategy = "aggregate"
    /\ pc = "loop"
    /\ Len(all_runs) < MaxVotes
    /\ Votes(all_runs) + Len(methods) <= MaxVotes
    /\ all_runs' = Append(all_runs, [run |-> Len(all_runs) + 1, methods |-> methods])
    /\ UNCHANGED <<strategy, pc, max_iterations, num_runs, top_k, iteration,
                   run_idx, prev_candidates, prev_methods, all_iterations,
                   aggregated, errors, prompts, response, result>>
    /\ UNCHANGED evalvars
    /\ UNCHANGED runvars

\* The caller aggregates the runs collected.
AggCall(k) ==
    /\ strategy = "aggregate"
    /\ pc = "loop"
    /\ top_k' = k
    /\ aggregated' = _aggregate_results(all_runs, k)
    /\ pc' = "done"
    /\ UNCHANGED <<strategy, max_iterations, num_runs, iteration, run_idx,
                   prev_candidates, prev_methods, all_iterations, all_runs,
                   errors, prompts, response, result>>
    /\ UNCHANGED evalvars
    /\ UNCHANGED runvars

NextAgg ==
    \/ \E methods \in SeqsUpTo(AggCandidates, MaxVotes) : AggAddRun(methods)
    \/ \E k \in 0..MaxVotes : AggCall(k)

SpecAgg == InitAgg /\ [][NextAgg]_vars

----------------------------------------------------------------------------
(* Properties of the consensus vote *)

Aggregated == strategy \in {"aggregate", "self_consistency"} /\ pc = "done"

\* Where an identifier occurs in the runs: <<run, rank>> pairs.
AllPlaces(runs) ==
    UNION {{<<j, r>> : r \in 1..Len(runs[j].methods)} : j \in 1..Len(runs)}

Places(runs, m) == {p \in AllPlaces(runs) : runs[p[1]].methods[p[2]].method = m}

RunsWith(runs, m) == {p[1] : p \in Places(runs, m)}

RECURSIVE RankTotal(_)
RankTotal(places) ==
    IF places = {} THEN 0
    ELSE LET p == CHOOSE q \in places : TRUE
         IN  p[2] + RankTotal(places \ {p})

Voted(runs) == {runs[p[1]].methods[p[2]].method : p \in AllPlaces(runs)} \ {<<>>}

RunOrders(n) == {f \in [1..n -> 1..n] : \A i, j \in 1..n : f[i] = f[j] => i = j}

Permuted(runs, f) == [i \in 1..Len(runs) |-> runs[f[i]]]

\* C7: the aggregation is order-independent: every permutation of the runs
\* aggregates to the same ranking (identifiers and justifications).
C7_OrderIndependent ==
    Aggregated =>
        \A f \in RunOrders(Len(all_runs)) :
            _aggregate_results(Permuted(all_runs, f), top_k) = aggregated

\* C8: the count of an identifier in the vote is the number of distinct
\* runs in which it appears, however often it occurs inside one run.
C8_CountIsDistinctRuns ==
    Aggregated =>
        LET items == VoteItems(all_runs)
        IN  \A i \in 1..Len(items) :
                items[i].count = Cardinality(RunsWith(all_runs, items[i].method))

\* The tally of an identifier: one per place it holds in the runs.
TallyOf(m) == Cardinality(Places(all_runs, m))

\* m has the strictly lower mean rank (the means compared as fractions).
MeanRankLower(m, n) ==
    RankTotal(Places(all_runs, m)) * TallyOf(n)
        < RankTotal(Places(all_runs, n)) * TallyOf(m)

\* m sorts strictly before n under (-count, avg_rank).
SortsBefore(m, n) ==
    \/ TallyOf(m) > TallyOf(n)
    \/ TallyOf(m) = TallyOf(n) /\ MeanRankLower(m, n)

\* C9: the output is the first K candidates of the list sorted by
\* (-count, avg_rank), avg_rank being the mean of the identifier's 1-based
\* ranks: it holds min(K, number of candidates) distinct voted identifiers,
\* none of them sorts strictly before one placed ahead of it, and none left
\* out sorts strictly before one that is in it.
C9_SortedByCountThenRank ==
    Aggregated =>
        LET out == Idents(aggregated)
            n == Cardinality(Voted(all_runs))
        IN  /\ Len(out) = IF top_k < n THEN top_k ELSE n
            /\ \A i \in 1..Len(out) : out[i] \in Voted(all_runs)
            /\ \A i, j \in 1..Len(out) :
                   i < j => out[i] # out[j] /\ ~SortsBefore(out[j], out[i])
            /\ \A m \in Voted(all_runs) :
                   (\A i \in 1..Len(out) : out[i] # m)
                   => \A i \in 1..Len(out) : ~SortsBefore(m, out[i])

\* R1 = [A, B], R2 = [B, A], R3 = [A] yields [A, B].
C9_Witness ==
    /\ Aggregated
    /\ Len(all_runs) = 3
    /\ Idents(all_runs[1].methods) = << <<"A">>, <<"B">> >>
    /\ Idents(all_runs[2].methods) = << <<"B">>, <<"A">> >>
    /\ Idents(all_runs[3].methods) = << <<"A">> >>
    /\ top_k = 2
    /\ Idents(aggregated) = << <<"A">>, <<"B">> >>

\* The places where a non-empty justification was given for m.
Justified(m) ==
    {p \in Places(all_runs, m) : all_runs[p[1]].methods[p[2]].justification # <<>>}

JustificationAt(p) == all_runs[p[1]].methods[p[2]].justification

\* Place p comes no later than place q in run order.
NoLater(p, q) == p[1] < q[1] \/ (p[1] = q[1] /\ p[2] <= q[2])

\* C10: every identifier of the output carries the shortest non-empty
\* justification given for it, the first such in run order among equally
\* short ones, and the empty string if none was given.
C10_ShortestJustification ==
    Aggregated =>
        \A i \in 1..Len(aggregated) :
            LET m == aggregated[i].method
                j == aggregated[i].justification
            IN  IF Justified(m) = {} THEN j = <<>>
                ELSE \E p \in Justified(m) :
                        /\ JustificationAt(p) = j
                        /\ \A q \in Justified(m) :
                               \/ Len(j) < Len(JustificationAt(q))
                               \/ /\ Len(j) = Len(JustificationAt(q))
                                  /\ NoLater(p, q)

\* A: "zz" in run 1, "y" in run 2, "x" in run 3 gives "y".
C10_Witness ==
    /\ Aggregated
    /\ Len(all_runs) = 3
    /\ all_runs[1].methods = <<Candidate(<<"A">>, <<"z", "z">>)>>
    /\ all_runs[2].methods = <<Candidate(<<"A">>, <<"y">>)>>
    /\ all_runs[3].methods = <<Candidate(<<"A">>, <<"x">>)>>
    /\ top_k = 1
    /\ aggregated = <<Candidate(<<"A">>, <<"y">>)>>

\* A given no justification in run 1 and "x" in run 2 gives "x"; B,
\* never given one, gets the empty string.
C10_WitnessEmpty ==
    /\ Aggregated
    /\ Len(all_runs) = 2
    /\ all_runs[1].methods = <<Candidate(<<"A">>, <<>>), Candidate(<<"B">>, <<>>)>>
    /\ all_runs[2].methods = <<Candidate(<<"A">>, <<"x">>)>>
    /\ aggregated = <<Candidate(<<"A">>, <<"x">>), Candidate(<<"B">>, <<>>)>>

----------------------------------------------------------------------------
(* normalize_method on its own: identifiers drawn character by character *)

\* The engine's variables, for the specifications in which no strategy runs.
EngineIdle ==
    /\ pc = "loop"
    /\ max_iterations = 0
    /\ num_runs = 0
    /\ top_k = 0
    /\ iteration = 1
    /\ run_idx = 1
    /\ prev_candidates = <<>>
    /\ prev_methods = NoMethods
    /\ all_iterations = <<>>
    /\ all_runs = <<>>
    /\ aggregated = <<>>
    /\ errors = <<>>
    /\ prompts = <<>>
    /\ response = LLMResponse(EmptyText, NoneJson, NoError)
    /\ result = NoResult

enginevars == <<max_iterations, num_runs, top_k, iteration, run_idx,
                prev_candidates, prev_methods, all_iterations, all_runs,
                aggregated, errors, prompts, response, result>>

\* Letters of both cases, the characters the separators are made of, the
\* parentheses of a signature, and a blank.
NormAlphabet == {"a", "B", "#", ":", ".", "(", ")", " "}

InitNorm ==
    /\ strategy = "normalize"
    /\ EngineIdle
    /\ identifier \in SeqsUpTo(NormAlphabet, MaxIdLen)
    /\ candidates = <<>>
    /\ normalized = <<>>
    /\ predicted = <<>>
    /\ actual = {}
    /\ eval_k = 0
    /\ metrics = NoMetrics
    /\ benchmark_type = "python"
    /\ results = <<>>
    /\ ground_truth = <<>>
    /\ project_results = <<>>
    /\ report = <<>>
    /\ RunIdle

NormalizeCall ==
    /\ strategy = "normalize"
    /\ pc = "loop"
    /\ normalized' = normalize_method(identifier)
    /\ pc' = "done"
    /\ UNCHANGED <<strategy, enginevars, candidates, identifier, predicted,
                   actual, eval_k, metrics, benchmark_type, results,
                   ground_truth, project_results, report>>
    /\ UNCHANGED runvars

NextNorm == NormalizeCall

SpecNorm == InitNorm /\ [][NextNorm]_vars

----------------------------------------------------------------------------
(* Properties of normalize_method *)

Normalized == strategy = "normalize" /\ pc = "done"

\* C11: normalizing an already normalized identifier changes nothing:
\* normalize_method(normalize_method(x)) = normalize_method(x), whatever
\* whitespace x has next to a separator or to an opening parenthesis.
C11_Idempotent == Normalized => normalize_method(normalized) = normalized

\* The positions of s at which an occurrence of some separator ends.
SeparatorEnds(s) ==
    {i + Len(Separators[j]) - 1 : i \in 1..Len(s), j \in 1..Len(Separators)}
        \cap {e \in 1..Len(s) :
                \E j \in 1..Len(Separators) :
                    /\ e >= Len(Separators[j])
                    /\ SubSeq(s, e - Len(Separators[j]) + 1, e) = Separators[j]}

\* What follows the last occurrence of any separator in s (s itself when
\* there is none).
AfterLastSeparator(s) ==
    IF SeparatorEnds(s) = {} THEN s
    ELSE LET e == CHOOSE x \in SeparatorEnds(s) : \A y \in SeparatorEnds(s) : y <= x
         IN  SubSeq(s, e + 1, Len(s))

SeparatorOrders ==
    {o \in [1..Len(Separators) -> Range(Separators)] : Range(o) = Range(Separators)}

\* C12 as stated: only the first separator class present, by the priority
\* "#", "::", ".", is applied; separators of a lower class that remain in
\* the kept substring are not split on ("a#b.c" yields "b.c").
C12_FirstSeparatorOnly ==
    Normalized =>
        normalized = Lower(SignatureCut(SplitOnFirstSeparator(Strip(identifier),
                                                              Separators)))

\* C12, amended: every separator class present is applied, in the order
\* "#", "::", ".", each to what the one before left ("a#b.c" yields "c").
\* The key is cut from what follows the last occurrence of any separator,
\* and the order in which the classes are tried does not change it.
C12_EverySeparatorApplied ==
    Normalized =>
        /\ normalized = Lower(SignatureCut(AfterLastSeparator(Strip(identifier))))
        /\ \A o \in SeparatorOrders :
              SplitOnSeparators(Strip(identifier), o)
                  = SplitOnSeparators(Strip(identifier), Separators)

C12_Witness ==
    /\ Normalized
    /\ identifier = <<"a", "#", "B", ".", "a">>
    /\ normalized = <<"a">>

\* C13: an identifier q without parenthesis and the same identifier followed
\* by a parenthesized parameter list p normalize to the same key, also when
\* p contains separator characters ("org.A.foo(java.lang.String)" and
\* "org.A.foo" both yield "foo").
C13_SignatureIgnored ==
    Normalized =>
        \A i \in 1..Len(identifier) :
            LET q == SubSeq(identifier, 1, i - 1)
            IN  (/\ identifier[i] = "("
                 /\ i < Len(identifier)
                 /\ identifier[Len(identifier)] = ")"
                 /\ ~Contains(q, <<"(">>)
                 /\ ~Contains(q, <<")">>))
                => normalized = normalize_method(q)

----------------------------------------------------------------------------
(* evaluate_bug on its own *)

\* Identifiers a result file can name: qualified, with and without
\* parameter list, with a qualified parameter type, and a bare name.
PredictedPool ==
    {<<"o", "r", "g", ".", "B", ".", "b", "a", "r", "(", ")">>,
     <<"o", "r", "g", ".", "A", ".", "f", "o", "o", "(", "S", "t", "r", "i", "n", "g", ")">>,
     <<"o", "r", "g", ".", "B", ".", "b", "a", "r", "(", "a", ".", "b", ")">>,
     <<"a">>}

\* Identifiers the ground truth can name.
ActualPool ==
    {<<"o", "r", "g", ".", "B", ".", "b", "a", "r">>,
     <<"B", ".", "b", "a", "r">>,
     <<"a">>}

InitEval ==
    /\ strategy = "evaluate_bug"
    /\ EngineIdle
    /\ predicted \in SeqsUpTo(PredictedPool, MaxPredicted)
    /\ actual \in SUBSET ActualPool
    /\ eval_k \in 0..(MaxPredicted + 1)
    /\ candidates = <<>>
    /\ identifier = <<>>
    /\ normalized = <<>>
    /\ metrics = NoMetrics
    /\ benchmark_type = "python"
    /\ results = <<>>
    /\ ground_truth = <<>>
    /\ project_results = <<>>
    /\ report = <<>>
    /\ RunIdle

EvaluateBugCall ==
    /\ strategy = "evaluate_bug"
    /\ pc = "loop"
    /\ metrics' = evaluate_bug(predicted, actual, eval_k)
    /\ pc' = "done"
    /\ UNCHANGED <<strategy, enginevars, candidates, identifier, normalized,
                   predicted, actual, eval_k, benchmark_type, results,
                   ground_truth, project_results, report>>
    /\ UNCHANGED runvars

NextEval == EvaluateBugCall

SpecEval == InitEval /\ [][NextEval]_vars

----------------------------------------------------------------------------
(* Properties of evaluate_bug *)

Evaluated == strategy = "evaluate_bug" /\ pc = "done"

One == Frac(1, 1)

\* C14 as stated: evaluate_bug([], {"a"}, k=5) returns every hit flag false
\* and precision, recall, f1 and accuracy all 0.
C14_EmptyPredictionScoresZero ==
    (Evaluated /\ predicted = <<>> /\ actual = {<<"a">>} /\ eval_k = 5) =>
        /\ ~metrics.top_1 /\ ~metrics.top_3 /\ ~metrics.top_5
        /\ metrics.precision = Zero
        /\ metrics.recall = Zero
        /\ metrics.f1 = Zero
        /\ metrics.accuracy = Zero

\* C14, amended: for an empty prediction list, a non-empty truth and k > 0
\* (so for evaluate_bug([], {"a"}, k=5)) every hit flag is false and
\* precision, recall and f1 are 0, but accuracy is 1: tn = max(0, k - 0 - 0)
\* = k, so (tp + tn) / k = 1.
C14_EmptyPredictionAccuracyOne ==
    (Evaluated /\ predicted = <<>> /\ actual # {} /\ eval_k > 0) =>
        /\ ~metrics.top_1 /\ ~metrics.top_3 /\ ~metrics.top_5
        /\ metrics.precision = Zero
        /\ metrics.recall = Zero
        /\ metrics.f1 = Zero
        /\ metrics.accuracy = One

C14_Witness ==
    /\ Evaluated /\ predicted = <<>> /\ actual = {<<"a">>} /\ eval_k = 5
    /\ metrics.accuracy = One

\* The normalized first-k predictions, as a set, and the normalized truth.
PredictedKeys == {normalize_method(predicted[i]) : i \in 1..Len(Prefix(predicted, eval_k))}
ActualKeys == {normalize_method(m) : m \in actual}

\* Precision, recall and f1 as the ratios of the set sizes, 0 on a zero
\* denominator.
ScoresFollowFormulas ==
    LET tp == Cardinality(PredictedKeys \cap ActualKeys)
        fp == Cardinality(PredictedKeys \ ActualKeys)
        fn == Cardinality(ActualKeys \ PredictedKeys)
        p == metrics.precision
        r == metrics.recall
    IN  /\ p = IF tp + fp = 0 THEN Zero ELSE Frac(tp, tp + fp)
        /\ r = IF tp + fn = 0 THEN Zero ELSE Frac(tp, tp + fn)
        /\ metrics.f1 = IF p.num * r.den + r.num * p.den = 0 THEN Zero
                        ELSE Frac(2 * p.num * r.num, p.num * r.den + r.num * p.den)

\* The bare lower-case method name of an identifier: what is left when the
\* parameter list, then the qualification, are taken away.
BareName(m) == Lower(AfterLastSeparator(SignatureCut(Strip(m))))

\* C15: tp, fp and fn are the sizes of the intersection and the differences
\* of the normalized first-k prediction set and the normalized truth set;
\* precision = tp/(tp+fp), recall = tp/(tp+fn), f1 = 2pr/(p+r), each 0 on a
\* zero denominator; and a prediction among the first k that differs from a
\* truth identifier only by qualification, signature or case is a true
\* positive.
C15_ScoresAndTruePositives ==
    Evaluated =>
        /\ ScoresFollowFormulas
        /\ \A i \in 1..Len(Prefix(predicted, eval_k)) :
              (\E t \in actual : BareName(t) = BareName(predicted[i]))
              => normalize_method(predicted[i]) \in ActualKeys

\* Some of the first n of the first eval_k predictions is, normalized, in
\* the normalized truth.
HitWithin(n) ==
    \E i \in 1..Len(predicted) :
        /\ i <= n
        /\ i <= eval_k
        /\ normalize_method(predicted[i]) \in ActualKeys

\* C16: for n in {1, 3, 5}, top_n is true exactly when at least one of the
\* first n entries of the normalized prediction list, itself cut to the
\* first k predictions, belongs to the normalized truth set.
C16_TopHits ==
    Evaluated =>
        /\ metrics.top_1 <=> HitWithin(1)
        /\ metrics.top_3 <=> HitWithin(3)
        /\ metrics.top_5 <=> HitWithin(5)

\* ["org.A.foo(String)", "org.B.bar()"] against {"B.bar"} with k = 5
C16_Witness ==
    /\ Evaluated
    /\ predicted = << <<"o", "r", "g", ".", "A", ".", "f", "o", "o", "(", "S", "t", "r", "i", "n", "g", ")">>,
                      <<"o", "r", "g", ".", "B", ".", "b", "a", "r", "(", ")">> >>
    /\ actual = { <<"B", ".", "b", "a", "r">> }
    /\ eval_k = 5
    /\ ~metrics.top_1
    /\ metrics.top_3

----------------------------------------------------------------------------
(* evaluation.py: generate_evaluation_report *)

\* ground_truth.get(project, {}).get(bug_id, set())
GroundTruthGet(gt, project, bug_id) ==
    IF project \in DOMAIN gt
    THEN IF bug_id \in DOMAIN gt[project] THEN gt[project][bug_id] ELSE {}
    ELSE {}

\* One (project, bug_id, result_data) tuple of results
ResultTuple(project, bug_id, result_data) ==
    [project |-> project, bug_id |-> bug_id, result_data |-> result_data]

\* [m.get("method", "") for m in result_data.get("top_k", [])]
PredictedOf(result_data) ==
    [i \in 1..Len(result_data.top_k) |-> result_data.top_k[i].method]

\* Variant: a defect without ground truth is scored against the empty set.
score_result_as_zero(pr, gt, k, r) ==
    [pr EXCEPT ![r.project] =
        Append(@, evaluate_bug(PredictedOf(r.result_data),
                               GroundTruthGet(gt, r.project, r.bug_id), k))]

\* The body of the loop over results.  project_results is a defaultdict: the
\* projects whose list is empty are the keys it does not have.
score_result(pr, gt, k, r) ==
    LET truth == GroundTruthGet(gt, r.project, r.bug_id)
    IN  IF truth = {} THEN pr
        ELSE [pr EXCEPT ![r.project] =
                 Append(@, evaluate_bug(PredictedOf(r.result_data), truth, k))]

RECURSIVE SumFrac(_)
SumFrac(fs) == IF fs = <<>> THEN Zero ELSE FracAdd(Head(fs), SumFrac(Tail(fs)))

\* Variant: the sum is not divided by n_bugs.
MeanUndivided(bugs, key) == SumFrac([i \in 1..Len(bugs) |-> bugs[i][key]])

\* sum(b[key] for b in bugs) / n_bugs
Mean(bugs, key) ==
    FracDiv(SumFrac([i \in 1..Len(bugs) |-> bugs[i][key]]), Frac(Len(bugs), 1))

\* sum(1 for b in bugs if b[key])
Hits(bugs, key) == Cardinality({i \in 1..Len(bugs) : bugs[i][key]})

\* What the report says of one project.
ProjectSummary(project, bugs) ==
    [project |-> project, n_bugs |-> Len(bugs),
     top1 |-> Hits(bugs, "top_1"), top3 |-> Hits(bugs, "top_3"),
     top5 |-> Hits(bugs, "top_5"),
     mean_prec |-> Mean(bugs, "precision"), mean_rec |-> Mean(bugs, "recall"),
     mean_f1 |-> Mean(bugs, "f1"), mean_acc |-> Mean(bugs, "accuracy")]

\* Variant: the project mean is added as it is.
Unweighted(mean, n_bugs) == mean

\* mean * n_bugs
Weighted(mean, n_bugs) == FracMul(mean, Frac(n_bugs, 1))

NoTotals ==
    [total_bugs |-> 0, total_top1 |-> 0, total_top3 |-> 0, total_top5 |-> 0,
     total_precision |-> Zero, total_recall |-> Zero, total_f1 |-> Zero,
     total_accuracy |-> Zero]

\* The loop over sorted(project_results.keys()): the running totals after
\* the summaries in ps, taken in order.
RECURSIVE Totals(_)
Totals(ps) ==
    IF ps = <<>> THEN NoTotals
    ELSE LET t == Totals(SubSeq(ps, 1, Len(ps) - 1))
             p == ps[Len(ps)]
         IN  [total_bugs |-> t.total_bugs + p.n_bugs,
              total_top1 |-> t.total_top1 + p.top1,
              total_top3 |-> t.total_top3 + p.top3,
              total_top5 |-> t.total_top5 + p.top5,
              total_precision |-> FracAdd(t.total_precision, Weighted(p.mean_prec, p.n_bugs)),
              total_recall |-> FracAdd(t.total_recall, Weighted(p.mean_rec, p.n_bugs)),
              total_f1 |-> FracAdd(t.total_f1, Weighted(p.mean_f1, p.n_bugs)),
              total_accuracy |-> FracAdd(t.total_accuracy, Weighted(p.mean_acc, p.n_bugs))]

\* The project names of the model, in sorted order.
Projects == <<"p", "q">>
BugIds == {1, 2}

\* The summaries of the projects that have scored bugs, in sorted order.
RECURSIVE Summaries(_, _)
Summaries(pr, names) ==
    IF names = <<>> THEN <<>>
    ELSE (IF pr[Head(names)] = <<>> THEN <<>>
          ELSE <<ProjectSummary(Head(names), pr[Head(names)])>>)
         \o Summaries(pr, Tail(names))

\* The figures of the report: the per-project blocks, the totals, and the
\* averages printed (F1 and accuracy for "python", all four otherwise; none
\* when no bug was scored).  An average that is not printed is left at 0.
Report(pr, benchmark) ==
    LET ps == Summaries(pr, Projects)
        t == Totals(ps)
        n == Frac(t.total_bugs, 1)
        shown == IF t.total_bugs = 0 THEN {}
                 ELSE IF benchmark = "python" THEN {"f1", "accuracy"}
                 ELSE {"precision", "recall", "f1", "accuracy"}
        hits == benchmark # "python"
    IN  [projects |-> ps,
         total_bugs |-> t.total_bugs,
         hits_shown |-> hits,
         total_top1 |-> IF hits THEN t.total_top1 ELSE 0,
         total_top3 |-> IF hits THEN t.total_top3 ELSE 0,
         total_top5 |-> IF hits THEN t.total_top5 ELSE 0,
         averages_shown |-> shown,
         precision |-> IF "precision" \in shown THEN FracDiv(t.total_precision, n) ELSE Zero,
         recall |-> IF "recall" \in shown THEN FracDiv(t.total_recall, n) ELSE Zero,
         f1 |-> IF "f1" \in shown THEN FracDiv(t.total_f1, n) ELSE Zero,
         accuracy |-> IF "accuracy" \in shown THEN FracDiv(t.total_accuracy, n) ELSE Zero]

\* Ground-truth maps: any of the projects, any of their bugs, each with a
\* one-method set; and a map whose only entry is an empty set.
TruthSets == {{<<"a">>}}
BugMaps == UNION {[B -> TruthSets] : B \in SUBSET BugIds}
EmptyTruth == [p \in {Projects[1]} |-> [b \in BugIds |-> {}]]
GroundTruths == UNION {[P -> BugMaps] : P \in SUBSET Range(Projects)} \cup {EmptyTruth}

\* The final_*.json files: a hit at rank 1, or a miss followed by a hit.
ResultFiles ==
    {[top_k |-> <<Candidate(<<"a">>, <<>>)>>],
     [top_k |-> <<Candidate(<<"b">>, <<>>), Candidate(<<"a">>, <<>>)>>]}

InitReport ==
    /\ strategy = "report"
    /\ EngineIdle
    /\ ground_truth \in GroundTruths
    /\ eval_k \in {1, 5}
    /\ benchmark_type \in {"python", "java"}
    /\ results = <<>>
    /\ project_results = [p \in Range(Projects) |-> <<>>]
    /\ report = Report(project_results, benchmark_type)
    /\ candidates = <<>>
    /\ identifier = <<>>
    /\ normalized = <<>>
    /\ predicted = <<>>
    /\ actual = {}
    /\ metrics = NoMetrics
    /\ RunIdle

\* One pass of the loop over results.  scan_experiment_outputs yields one
\* tuple per bug directory, so a (project, bug_id) comes once.
ScoreResult(project, bug_id, result_data) ==
    /\ strategy = "report"
    /\ pc = "loop"
    /\ Len(results) < MaxResults
    /\ \A i \in 1..Len(results) :
          ~(results[i].project = project /\ results[i].bug_id = bug_id)
    /\ results' = Append(results, ResultTuple(project, bug_id, result_data))
    /\ project_results' = score_result(project_results, ground_truth, eval_k,
                                       ResultTuple(project, bug_id, result_data))
    /\ UNCHANGED <<strategy, pc, enginevars, candidates, identifier, normalized,
                   predicted, actual, eval_k, metrics, benchmark_type,
                   ground_truth, report>>
    /\ UNCHANGED runvars

\* The loop over results is over: the rest of generate_evaluation_report.
BuildReport ==
    /\ strategy = "report"
    /\ pc = "loop"
    /\ report' = Report(project_results, benchmark_type)
    /\ pc' = "done"
    /\ UNCHANGED <<strategy, enginevars, candidates, identifier, normalized,
                   predicted, actual, eval_k, metrics, benchmark_type, results,
                   ground_truth, project_results>>
    /\ UNCHANGED runvars

NextReport ==
    \/ \E project \in Range(Projects), bug_id \in BugIds, result_data \in ResultFiles :
          ScoreResult(project, bug_id, result_data)
    \/ BuildReport

SpecReport == InitReport /\ [][NextReport]_vars

----------------------------------------------------------------------------
(* Properties of generate_evaluation_report *)

Reported == strategy = "report" /\ pc = "done"

\* The defect of result r has an entry in the ground-truth map.
HasEntry(r) ==
    /\ r.project \in DOMAIN ground_truth
    /\ r.bug_id \in DOMAIN ground_truth[r.project]

RECURSIVE WithEntry(_)
WithEntry(rs) ==
    IF rs = <<>> THEN <<>>
    ELSE (IF HasEntry(Head(rs)) THEN <<Head(rs)>> ELSE <<>>) \o WithEntry(Tail(rs))

\* project_results after the loop has gone through rs.
RECURSIVE ScoreAll(_)
ScoreAll(rs) ==
    IF rs = <<>> THEN [p \in Range(Projects) |-> <<>>]
    ELSE score_result(ScoreAll(SubSeq(rs, 1, Len(rs) - 1)), ground_truth, eval_k,
                      rs[Len(rs)])

\* C17: a defect with no entry in the ground-truth map is left out of the
\* aggregation: every project's list of scored bugs, and with it every
\* count, sum, total and average of the report, is what it is for the
\* results without that defect, and the project's bug count counts no
\* defect without an entry.
C17_MissingTruthExcluded ==
    Reported =>
        LET scored == ScoreAll(WithEntry(results))
        IN
        /\ project_results = scored
        /\ report = Report(scored, benchmark_type)
        /\ \A p \in Range(Projects) :
              Len(project_results[p])
                  <= Cardinality({i \in 1..Len(results) :
                                     results[i].project = p /\ HasEntry(results[i])})
        /\ report.total_bugs <= Len(WithEntry(results))

\* Two defects scanned, one of them without ground truth: one bug reported.
C17_Witness ==
    /\ Reported
    /\ Len(results) = 2
    /\ ~HasEntry(results[1])
    /\ HasEntry(results[2])
    /\ report.total_bugs = 1
    /\ Len(report.projects) = 1
    /\ report.projects[1].n_bugs = 1

\* The number of scored bugs of the i-th project.
ScoredBugs(i) == Len(project_results[Projects[i]])

\* The arithmetic mean of a metric over the scored bugs of the i-th project.
ProjectMean(i, key) ==
    LET bugs == project_results[Projects[i]]
    IN  FracDiv(SumFrac([j \in 1..Len(bugs) |-> bugs[j][key]]), Frac(Len(bugs), 1))

\* Sum over the projects with scored bugs of (project mean * scored bugs),
\* divided by the number of scored bugs of all projects.
WeightedAverage(key) ==
    FracDiv(SumFrac([i \in 1..Len(Projects) |->
                        IF ScoredBugs(i) = 0 THEN Zero
                        ELSE FracMul(ProjectMean(i, key), Frac(ScoredBugs(i), 1))]),
            SumFrac([i \in 1..Len(Projects) |-> Frac(ScoredBugs(i), 1)]))

\* C18: every corpus-wide average the report shows is the sum over the
\* projects of (project mean * project's scored-bug count) divided by the
\* total number of scored bugs, each project mean being the arithmetic mean
\* of the metric over the project's scored bugs.
C18_WeightedAverage ==
    (Reported /\ report.total_bugs > 0) =>
        /\ Frac(report.total_bugs, 1) = SumFrac([i \in 1..Len(Projects) |-> Frac(ScoredBugs(i), 1)])
        /\ \A key \in report.averages_shown : report[key] = WeightedAverage(key)
        /\ \A n \in 1..Len(report.projects) :
              \E i \in 1..Len(Projects) :
                  /\ report.projects[n].project = Projects[i]
                  /\ report.projects[n].n_bugs = ScoredBugs(i)
                  /\ report.projects[n].mean_prec = ProjectMean(i, "precision")
                  /\ report.projects[n].mean_rec = ProjectMean(i, "recall")
                  /\ report.projects[n].mean_f1 = ProjectMean(i, "f1")
                  /\ report.projects[n].mean_acc = ProjectMean(i, "accuracy")

\* Two projects with different bug counts and different means, all four
\* averages shown.
C18_Witness ==
    /\ Reported
    /\ report.averages_shown = {"precision", "recall", "f1", "accuracy"}
    /\ Len(report.projects) = 2
    /\ report.projects[1].n_bugs = 2
    /\ report.projects[2].n_bugs = 1
    /\ report.projects[1].mean_f1 # report.projects[2].mean_f1
    /\ report.projects[1].mean_prec # report.projects[2].mean_prec

----------------------------------------------------------------------------
(* extract_top_k_methods on its own: any entries in the top_k array *)

\* What the oracle may put under "method": identifiers, the same with
\* whitespace around, a blank or whitespace-only string, a number, null,
\* or nothing.
ParseMethodValues ==
    {JStr(<<"A">>), JStr(<<"B">>), JStr(<<" ", "A">>), JStr(<<>>), JStr(<<" ">>),
     JNum(7), JNull, JAbsent}

\* Entries of the top_k array: objects with any of these under "method",
\* with or without a "method_name", and an entry that is no object.
ParseEntries ==
    {Entry(TRUE, m, n, JAbsent) : m \in ParseMethodValues, n \in {JAbsent, JStr(<<"B">>)}}
        \cup {Entry(FALSE, JAbsent, JAbsent, JAbsent)}

ParseOutcomes ==
    {Raised("Read timed out"),
     Answered(RawText("blank", NoneJson)),
     Answered(RawText("nobrace", NoneJson)),
     Answered(RawText("badjson", NoneJson)),
     Answered(RawText("json", JsonObject(FALSE, FALSE, <<>>))),
     Answered(RawText("json", JsonObject(TRUE, FALSE, <<>>)))}
    \cup {Answered(RawText("json", JsonObject(TRUE, TRUE, l))) :
            l \in SeqsUpTo(ParseEntries, MaxTopKLen)}

\* top_k is the K of the PromptBuilder: the number of candidates the prompt
\* asks the oracle for.
InitParse ==
    /\ strategy = "parse"
    /\ pc = "loop"
    /\ top_k \in 1..MaxTopKLen
    /\ max_iterations = 0
    /\ num_runs = 0
    /\ iteration = 1
    /\ run_idx = 1
    /\ prev_candidates = <<>>
    /\ prev_methods = NoMethods
    /\ all_iterations = <<>>
    /\ all_runs = <<>>
    /\ aggregated = <<>>
    /\ errors = <<>>
    /\ prompts = <<>>
    /\ response = LLMResponse(EmptyText, NoneJson, NoError)
    /\ result = NoResult
    /\ EvalIdle
    /\ RunIdle

\* client.generate(prompt) followed by extract_top_k_methods(response)
ParseResponse(outcome) ==
    /\ strategy = "parse"
    /\ pc = "loop"
    /\ response' = generate(outcome)
    /\ candidates' = extract_top_k_methods(response')
    /\ pc' = "done"
    /\ UNCHANGED <<strategy, max_iterations, num_runs, top_k, iteration, run_idx,
                   prev_candidates, prev_methods, all_iterations, all_runs,
                   aggregated, errors, prompts, result>>
    /\ UNCHANGED <<identifier, normalized, predicted, actual, eval_k, metrics,
                   benchmark_type, results, ground_truth, project_results, report>>
    /\ UNCHANGED runvars

NextParse == \E outcome \in ParseOutcomes : ParseResponse(outcome)

SpecParse == InitParse /\ [][NextParse]_vars

----------------------------------------------------------------------------
(* Properties of extract_top_k_methods *)

Parsed == strategy = "parse" /\ pc = "done"

\* C19: a ranked list parsed from an oracle response has at most K entries
\* and no two of its entries have the same method identifier.
C19_RankedListInvariant ==
    Parsed =>
        /\ Len(candidates) <= top_k
        /\ \A i, j \in 1..Len(candidates) :
              candidates[i].method = candidates[j].method => i = j

\* The value the parser reads from an entry: "method", or "method_name"
\* when "method" is missing or empty.
NameValue(item) ==
    IF item.method.t = "str" /\ item.method.s # <<>> THEN item.method
    ELSE IF item.method.t \in {"absent", "null"} \/ item.method = JStr(<<>>)
         THEN item.method_name
    ELSE item.method

\* An entry the parser is to accept: a record with a string that is not
\* empty after trimming.
Acceptable(item) ==
    /\ item.is_dict
    /\ NameValue(item).t = "str"
    /\ Strip(NameValue(item).s) # <<>>

\* C20: every candidate the parser returns has a method identifier that is
\* non-empty after trimming, and the candidates are the entries that hold a
\* non-empty string under "method" (or "method_name"): blank,
\* whitespace-only and non-string values yield no candidate.
C20_CandidatesNonEmpty ==
    (Parsed /\ ~response.parsed_json.is_none /\ response.parsed_json.is_list) =>
        /\ \A i \in 1..Len(candidates) : Strip(candidates[i].method) # <<>>
        /\ Len(candidates)
             = Cardinality({i \in 1..Len(response.parsed_json.top_k) :
                               Acceptable(response.parsed_json.top_k[i])})

----------------------------------------------------------------------------
(* The strategies on answers that name one method in several spellings *)

\* One method as the oracle may spell it: bare, in lower case, qualified,
\* with a signature.  normalize_method maps all four to the same key.
VariantIdents == {<<"A">>, <<"a">>, <<"x", ".", "A">>, <<"A", "(", ")">>}

VariantOutcomes ==
    {Raised("Read timed out")}
    \cup {Answered(RawText("json", JsonObject(TRUE, TRUE, <<WellFormed(m, <<>>)>>))) :
            m \in VariantIdents}

NextVariants ==
    \/ \E outcome \in VariantOutcomes : ZeroShotIteration(outcome)
    \/ ZeroShotExhausted
    \/ \E outcome \in VariantOutcomes : SelfConsistencyRun(outcome)
    \/ SelfConsistencyAggregate

SpecVariants == Init /\ [][NextVariants]_vars

\* The identifiers of the last two history records differ as emitted.
LastTwoDiffer ==
    /\ Len(all_iterations) >= 2
    /\ Idents(all_iterations[Len(all_iterations)].methods)
         # Idents(all_iterations[Len(all_iterations) - 1].methods)

\* C21: convergence and voting compare identifiers as the parser emitted
\* them.  A zero-shot run whose last two rankings differ in spelling only
\* has not converged, and in the vote every spelling is a candidate of its
\* own whose count is the number of times that very spelling was named.
C21_NoNormalization ==
    /\ (ZeroShotReturned /\ LastTwoDiffer) => ~result.converged
    /\ (strategy = "zero_shot" /\ pc = "loop") =>
          \A j \in 2..Len(all_iterations) :
              Idents(all_iterations[j].methods) # Idents(all_iterations[j - 1].methods)
    /\ (strategy = "self_consistency" /\ pc = "done") =>
          LET stats == TallyRuns(<<>>, all_runs)
          IN  /\ Len(stats) = Cardinality(Voted(all_runs))
              /\ \A i \in 1..Len(stats) : stats[i].count = TallyOf(stats[i].method)
              /\ Len(aggregated)
                   = IF top_k < Cardinality(Voted(all_runs)) THEN top_k
                     ELSE Cardinality(Voted(all_runs))

\* "A" then "a": the budget runs out without convergence.
C21_Witness ==
    /\ ZeroShotReturned
    /\ Len(all_iterations) = 2
    /\ Idents(all_iterations[1].methods) = << <<"A">> >>
    /\ Idents(all_iterations[2].methods) = << <<"a">> >>
    /\ ~result.converged

\* "A" and "A()" voted for once each: two candidates.
C21_WitnessVote ==
    /\ strategy = "self_consistency" /\ pc = "done"
    /\ Len(all_runs) = 2
    /\ Idents(aggregated) = << <<"A">>, <<"A", "(", ")">> >>

----------------------------------------------------------------------------
(* _save_result: the write of final_*.json *)

\* output_data: the ranking and the metadata of the result.
OutputData(res) ==
    [top_k |-> res.final_ranking,
     metadata |-> [iterations_used |-> res.iterations_used,
                   converged |-> res.converged, errors |-> res.errors]]

\* What json.dump hands to the file, piece by piece: the opening brace, the
\* entries of "top_k" one by one, the "metadata" object, the closing brace.
Chunk(kind, n) == [kind |-> kind, n |-> n]
Chunks(data) ==
    <<Chunk("open", 0)>>
        \o [i \in 1..Len(data.top_k) |-> Chunk("top_k", i)]
        \o <<Chunk("metadata", 0), Chunk("close", 0)>>

\* The results a strategy may hand to _save_result.
SaveResults ==
    {InferenceResult(ranking, used, conv, <<>>, <<>>) :
        ranking \in SeqsUpTo({Candidate(m, <<>>) : m \in EngineIdents}, MaxTopKLen),
        used \in 0..MaxIterations, conv \in BOOLEAN}

InitSave ==
    /\ strategy = "save"
    /\ pc = "loop"
    /\ result \in SaveResults
    /\ max_iterations = 0
    /\ num_runs = 0
    /\ top_k = 0
    /\ iteration = 1
    /\ run_idx = 1
    /\ prev_candidates = <<>>
    /\ prev_methods = NoMethods
    /\ all_iterations = <<>>
    /\ all_runs = <<>>
    /\ aggregated = <<>>
    /\ errors = <<>>
    /\ prompts = <<>>
    /\ response = LLMResponse(EmptyText, NoneJson, NoError)
    /\ EvalIdle
    /\ RunIdle

\* open(path, "w"): the file is created, empty.
SaveOpen ==
    /\ strategy = "save"
    /\ pc = "loop"
    /\ artifact' = [exists |-> TRUE, content |-> <<>>]
    /\ pc' = "writing"
    /\ UNCHANGED <<strategy, enginevars, evalvars, refs, ref_idx, success,
                   failures, handled>>

\* json.dump: the next piece reaches the file.
SaveWrite ==
    /\ strategy = "save"
    /\ pc = "writing"
    /\ Len(artifact.content) < Len(Chunks(OutputData(result)))
    /\ artifact' = [artifact EXCEPT !.content =
                       Append(@, Chunks(OutputData(result))[Len(@) + 1])]
    /\ UNCHANGED <<strategy, pc, enginevars, evalvars, refs, ref_idx, success,
                   failures, handled>>

\* The with-block ends: the file is closed and _save_result returns.
SaveClose ==
    /\ strategy = "save"
    /\ pc = "writing"
    /\ Len(artifact.content) = Len(Chunks(OutputData(result)))
    /\ pc' = "done"
    /\ UNCHANGED <<strategy, enginevars, evalvars, runvars>>

\* The write is interrupted (the process is killed, the disk is full, the
\* write raises): nothing of _save_result runs any more, and nothing in it
\* removes the file.
SaveInterrupted ==
    /\ strategy = "save"
    /\ pc \in {"loop", "writing"}
    /\ pc' = "interrupted"
    /\ UNCHANGED <<strategy, enginevars, evalvars, runvars>>

NextSave == SaveOpen \/ SaveWrite \/ SaveClose \/ SaveInterrupted

SpecSave == InitSave /\ [][NextSave]_vars

\* C22: if the write of the artifact is interrupted at any point, either
\* the complete final_*.json exists or no file exists: a truncated file is
\* never left on disk.
C22_AtomicWrite ==
    (strategy = "save" /\ pc = "interrupted") =>
        \/ ~artifact.exists
        \/ artifact.content = Chunks(OutputData(result))

----------------------------------------------------------------------------
(* main.py: the loop of run_experiment over the selected defects *)

\* How the handling of one defect ends: it runs through, or one of its
\* steps raises (reading the base prompt, creating the output directory,
\* building the prompt, running the strategy, writing a file).
HandlingOutcomes ==
    {"ok", "load_bug_data", "ensure_dir", "build_prompt", "inference", "file_io"}

\* Variant: a failure ends the loop.
NextRefOrAbort(i, outcome) == IF outcome = "ok" THEN i + 1 ELSE Len(refs) + 1

\* "except Exception" lies inside the for-loop: the loop goes on with the
\* next defect.
NextRef(i, outcome) == i + 1

\* refs after the --project / --bug-id filters, which may leave none.
InitRun ==
    /\ strategy = "run_experiment"
    /\ EngineIdle
    /\ EvalIdle
    /\ artifact = NoFile
    /\ \E n \in 0..MaxDefects : refs = [i \in 1..n |-> i]
    /\ ref_idx = 1
    /\ success = 0
    /\ failures = 0
    /\ handled = <<>>

\* One pass through the body of the for-loop: the try block and its except
\* clause.
HandleDefect(outcome) ==
    /\ strategy = "run_experiment"
    /\ pc = "loop"
    /\ ref_idx <= Len(refs)
    /\ handled' = Append(handled, [ref |-> refs[ref_idx], outcome |-> outcome])
    /\ IF outcome = "ok"
       THEN success' = success + 1 /\ UNCHANGED failures
       ELSE failures' = failures + 1 /\ UNCHANGED success
    /\ ref_idx' = NextRef(ref_idx, outcome)
    /\ UNCHANGED <<strategy, pc, enginevars, evalvars, artifact, refs>>

\* The loop ran out: "Done: {success} success, {errors} errors".
RunDone ==
    /\ strategy = "run_experiment"
    /\ pc = "loop"
    /\ ref_idx > Len(refs)
    /\ pc' = "done"
    /\ UNCHANGED <<strategy, enginevars, evalvars, runvars>>

NextRun ==
    \/ \E outcome \in HandlingOutcomes : HandleDefect(outcome)
    \/ RunDone

SpecRun == InitRun /\ [][NextRun]_vars

\* C23: a failure while one defect is handled is caught: the defect is
\* skipped and the loop takes up every remaining defect, in order.  After
\* the loop success + errors is the number of selected defects, errors
\* being the number of defects whose handling failed.
C23_FailuresCaught ==
    strategy = "run_experiment" =>
        /\ Len(handled) = ref_idx - 1
        /\ \A i \in 1..Len(handled) : handled[i].ref = refs[i]
        /\ failures = Cardinality({i \in 1..Len(handled) : handled[i].outcome # "ok"})
        /\ success = Cardinality({i \in 1..Len(handled) : handled[i].outcome = "ok"})
        /\ pc = "done" => /\ Len(handled) = Len(refs)
                          /\ success + failures = Len(refs)

\* A failure on the first defect, the others handled after it.
C23_Witness ==
    /\ strategy = "run_experiment" /\ pc = "done"
    /\ Len(refs) = 3
    /\ handled[1].outcome = "load_bug_data"
    /\ handled[2].outcome = "ok"
    /\ handled[3].outcome = "file_io"
    /\ success = 1
    /\ failures = 2

----------------------------------------------------------------------------
(* run_zero_shot_iterative, every call of the oracle returning *)

InitZeroShot == Init /\ strategy = "zero_shot"

NextZeroShot ==
    \/ \E outcome \in EngineOutcomes : ZeroShotIteration(outcome)
    \/ ZeroShotExhausted

\* client.generate returns: the HTTP request carries a timeout and every
\* exception is turned into an error response, so the loop body, and the
\* code after the loop, run to their end.
SpecZeroShotFair ==
    InitZeroShot /\ [][NextZeroShot]_vars /\ WF_vars(NextZeroShot)

\* C24: run_zero_shot_iterative terminates, after at most max_iterations
\* oracle calls, in exactly one of two terminal states: CONVERGED
\* (converged = True, the loop left by the return inside it) or EXHAUSTED
\* (converged = False, the loop run out); nothing happens after it.
C24_Terminates ==
    /\ <>(pc = "done")
    /\ [](Len(prompts) <= max_iterations)
    /\ [](pc = "done" =>
            \/ result.converged /\ iteration <= max_iterations
            \/ ~result.converged /\ iteration = max_iterations + 1)
    /\ [][pc # "done"]_vars

\* The budget used up to the last call, without convergence.
C24_Witness ==
    /\ ZeroShotReturned
    /\ max_iterations = MaxIterations
    /\ Len(prompts) = max_iterations
    /\ ~result.converged

C24_WitnessConverged ==
    /\ ZeroShotReturned
    /\ result.converged
    /\ Len(prompts) < max_iterations

----------------------------------------------------------------------------
\* C25: a run of run_zero_shot_iterative that returns converged = True has
\* at least two records in its history, the last two with the same ordered
\* identifier sequence; a last record that differs from the record before
\* it never converges, whatever older record it equals (A, B, A); and two
\* successive records with equal sequences converge also when failed
\* iterations lie between them.
C25_ConvergedMeansAdjacentRepeat ==
    strategy = "zero_shot" =>
        LET history == all_iterations
            n == Len(history)
            LastTwoEqual ==
                /\ n >= 2
                /\ Idents(history[n].methods) = Idents(history[n - 1].methods)
        IN  /\ (pc = "done" /\ result.converged)
               => /\ LastTwoEqual
                  /\ result.all_iterations = history
                  /\ result.iterations_used = history[n].iteration
            /\ (n >= 2 /\ ~LastTwoEqual) => ~result.converged
            /\ (LastTwoEqual
                  /\ history[n].iteration > history[n - 1].iteration + 1)
               => pc = "done" /\ result.converged

\* [A] at iteration 1, a failed call at 2, [A] at 3: converged at 3.
C25_Witness ==
    /\ ZeroShotReturned
    /\ result.converged
    /\ Len(all_iterations) = 2
    /\ all_iterations[1].iteration = 1
    /\ all_iterations[2].iteration = 3
    /\ Idents(all_iterations[2].methods) = << <<"A">> >>
    /\ Len(errors) = 1 /\ errors[1].index = 2

\* [A], [B], [A]: the third list equals the first only; not converged.
C25_WitnessOlderOnly ==
    /\ ZeroShotReturned
    /\ ~result.converged
    /\ Len(all_iterations) = 3
    /\ Idents(all_iterations[1].methods) = << <<"A">> >>
    /\ Idents(all_iterations[2].methods) = << <<"B">> >>
    /\ Idents(all_iterations[3].methods) = << <<"A">> >>

----------------------------------------------------------------------------
(* run_zero_shot_iterative under every budget --max-iters accepts *)

\* "--max-iters", type=int: no lower limit is set on it.
NegativeBudgets == {-1}

InitAnyBudget ==
    /\ strategy = "zero_shot"
    /\ pc = "loop"
    /\ max_iterations \in NegativeBudgets \cup (0..MaxIterations)
    /\ num_runs = 0
    /\ top_k = 0
    /\ iteration = 1
    /\ run_idx = 1
    /\ prev_candidates = <<>>
    /\ prev_methods = NoMethods
    /\ all_iterations = <<>>
    /\ all_runs = <<>>
    /\ aggregated = <<>>
    /\ errors = <<>>
    /\ prompts = <<>>
    /\ response = LLMResponse(EmptyText, NoneJson, NoError)
    /\ result = NoResult
    /\ EvalIdle
    /\ RunIdle

SpecAnyBudget == InitAnyBudget /\ [][NextZeroShot]_vars

\* The iteration indices recorded in the history / in the error records.
HistoryIndices(res) ==
    {res.all_iterations[j].iteration : j \in 1..Len(res.all_iterations)}

ErrorIndices(res) == {res.errors[j].index : j \in 1..Len(res.errors)}

\* C26: at return from run_zero_shot_iterative the history records and the
\* error records together number the oracle calls made, which is
\* iterations_used; every index 1..iterations_used is in exactly one of the
\* two, once; the history's indices strictly increase.
C26_IndexAccounting ==
    ZeroShotReturned =>
        /\ Len(result.all_iterations) + Len(result.errors) = Len(prompts)
        /\ Len(prompts) = result.iterations_used
        /\ HistoryIndices(result) \cup ErrorIndices(result)
               = 1..result.iterations_used
        /\ HistoryIndices(result) \cap ErrorIndices(result) = {}
        /\ \A i, j \in 1..Len(result.all_iterations) :
               i < j => result.all_iterations[i].iteration
                            < result.all_iterations[j].iteration

----------------------------------------------------------------------------
\* C27: run_self_consistency returns converged = True and
\* iterations_used = num_runs whatever the rounds gave; when every round
\* failed it returns an empty final ranking and num_runs error records,
\* still with converged = True.
C27_SelfConsistencyAlwaysConverged ==
    (strategy = "self_consistency" /\ pc = "done")
    => /\ result.converged = TRUE
       /\ result.iterations_used = num_runs
       /\ Len(prompts) = num_runs
       /\ (result.all_iterations = <<>> \/ Len(result.errors) = num_runs)
          => /\ result.final_ranking = <<>>
             /\ result.all_iterations = <<>>
             /\ Len(result.errors) = num_runs
             /\ \A i \in 1..num_runs : result.errors[i].index = i

\* Every one of MaxIterations rounds failed.
C27_Witness ==
    /\ strategy = "self_consistency"
    /\ pc = "done"
    /\ num_runs = MaxIterations
    /\ Len(result.errors) = num_runs
    /\ result.final_ranking = <<>>
    /\ result.converged

\* Rounds that disagree on every candidate: still converged.
C27_WitnessDisagreement ==
    /\ strategy = "self_consistency"
    /\ pc = "done"
    /\ Len(result.all_iterations) >= 2
    /\ \A i, j \in 1..Len(result.all_iterations) :
           i # j => Idents(result.all_iterations[i].methods)
                        # Idents(result.all_iterations[j].methods)
    /\ result.converged

----------------------------------------------------------------------------
(* _aggregate_results on runs that hold items without an identifier *)

\* item.get("method", "") of an item that has none, or an empty one
Blank == <<>>

BlankCandidates ==
    {Candidate(<<"A">>, <<>>), Candidate(<<"B">>, <<>>), Candidate(Blank, <<"x">>)}

NextAggBlank ==
    \/ \E methods \in SeqsUpTo(BlankCandidates, MaxVotes) : AggAddRun(methods)
    \/ \E k \in 0..MaxVotes : AggCall(k)

SpecAggBlank == InitAgg /\ [][NextAggBlank]_vars

\* C28: whatever the runs and whatever top_k >= 0, _aggregate_results
\* returns at most top_k entries, whose identifiers are non-empty, pairwise
\* distinct, and each present in at least one of the runs.
C28_OutputWithinRuns ==
    (strategy = "aggregate" /\ pc = "done")
    => /\ Len(aggregated) <= top_k
       /\ \A i \in 1..Len(aggregated) :
              /\ aggregated[i].method # Blank
              /\ \E j \in 1..Len(all_runs) :
                     \E r \in 1..Len(all_runs[j].methods) :
                         all_runs[j].methods[r].method = aggregated[i].method
              /\ \A j \in 1..Len(aggregated) :
                     j # i => aggregated[j].method # aggregated[i].method

\* Some item without an identifier, A and B voted, top_k = 1: one entry.
C28_Witness ==
    /\ strategy = "aggregate"
    /\ pc = "done"
    /\ top_k = 1
    /\ Places(all_runs, Blank) # {}
    /\ Places(all_runs, <<"A">>) # {}
    /\ Places(all_runs, <<"B">>) # {}
    /\ Len(aggregated) = 1

\* A named twice beside an item without an identifier: A once in the output.
C28_WitnessRepeated ==
    /\ strategy = "aggregate"
    /\ pc = "done"
    /\ top_k = MaxVotes
    /\ Places(all_runs, Blank) # {}
    /\ Cardinality(Places(all_runs, <<"A">>)) = 2
    /\ Idents(aggregated) = << <<"A">> >>

----------------------------------------------------------------------------
\* The distinct normalized identifiers among the predictions at ranks 1..k.
RankedKeys == {normalize_method(predicted[i]) : i \in (1..Len(predicted)) \cap (1..eval_k)}

\* C29: in evaluate_bug with k >= 1, tp + fp <= k, so that tn is
\* k - tp - fp unclamped and accuracy is (k - fp) / k: a value in [0, 1]
\* fixed by k and the number of false positives, whatever the size of the
\* truth set and whatever fn.
C29_AccuracyFromFalsePositives ==
    (Evaluated /\ eval_k >= 1) =>
        LET tp == Cardinality(RankedKeys \cap ActualKeys)
            fp == Cardinality(RankedKeys \ ActualKeys)
        IN  /\ tp + fp <= eval_k
            /\ TrueNegatives(eval_k, tp, fp) = eval_k - tp - fp
            /\ metrics.accuracy = Frac(eval_k - fp, eval_k)
            /\ metrics.accuracy.num >= 0
            /\ metrics.accuracy.num <= metrics.accuracy.den

\* More predictions than k = 2, one hit and one miss among the first two,
\* a truth identifier left unfound: accuracy 1/2.
C29_Witness ==
    /\ Evaluated
    /\ eval_k = 2
    /\ Len(predicted) > eval_k
    /\ Cardinality(RankedKeys \cap ActualKeys) = 1
    /\ Cardinality(RankedKeys \ ActualKeys) = 1
    /\ ActualKeys \ RankedKeys # {}
    /\ metrics.accuracy = Frac(1, 2)

----------------------------------------------------------------------------
\* The scored bugs of all projects: <<project, position>> pairs.
AllScored ==
    UNION {{<<p, j>> : j \in 1..Len(project_results[p])} : p \in Range(Projects)}

\* The sum of a metric over a set of scored bugs, in no particular order.
RECURSIVE MetricTotal(_, _)
MetricTotal(bugs, key) ==
    IF bugs = {} THEN Zero
    ELSE LET b == CHOOSE c \in bugs : TRUE
         IN  FracAdd(project_results[b[1]][b[2]][key], MetricTotal(bugs \ {b}, key))

\* The arithmetic mean of a metric over all scored bugs.
PlainMean(key) == FracDiv(MetricTotal(AllScored, key), Frac(Cardinality(AllScored), 1))

\* C30: in exact arithmetic every corpus-wide average of the report is the
\* arithmetic mean of the per-bug metric over the scored bugs of all
\* projects taken together, so the projects the bugs belong to do not
\* enter into it.
C30_PlainMeanOverAllBugs ==
    (Reported /\ AllScored # {}) =>
        /\ report.total_bugs = Cardinality(AllScored)
        /\ report.averages_shown # {}
        /\ \A key \in report.averages_shown : report[key] = PlainMean(key)

\* Two bugs in one project, one in the other, with different project means:
\* the average shown is not the mean of the two project means.
C30_Witness ==
    /\ Reported
    /\ Len(report.projects) = 2
    /\ report.projects[1].n_bugs # report.projects[2].n_bugs
    /\ "precision" \in report.averages_shown
    /\ report.precision
         # FracDiv(FracAdd(report.projects[1].mean_prec, report.projects[2].mean_prec),
                   Frac(2, 1))

====
